---- MODULE Spec2Model ----
(***************************************************************************)
(* Parkify: the media-transformation request pipeline.                     *)
(*                                                                         *)
(*   - the application shell (App: upload / processing / result / error),  *)
(*   - the client service generateSouthParkImage in its variants           *)
(*       "fallback" : retry loop + background-function fallback            *)
(*       "retry"    : retry loop only                                      *)
(*       "probe"    : connectivity probe, then one request                 *)
(*       "direct"   : direct call of the upstream responses API            *)
(*   - the serverless proxy handler in its variants                        *)
(*       "cors"     : CORS headers, no upstream timeout                    *)
(*       "timed"    : CORS headers, 30 s abort of the upstream call        *)
(*       "plain"    : no CORS support                                      *)
(*                                                                         *)
(* Text is modelled as a sequence of fragments (a template literal is the  *)
(* concatenation of its pieces); the empty string is the empty sequence.   *)
(* A JSON object is a record; an absent property is an absent field.       *)
(***************************************************************************)
EXTENDS Integers, Sequences, FiniteSets, TLC

VARIABLES
    state,              \* App: 'upload' | 'processing' | 'result' | 'error'
    originalImageUrl,   \* App
    generatedImageUrl,  \* App
    error,              \* App
    variant,            \* which build of generateSouthParkImage is deployed
    pc,                 \* position of the generateSouthParkImage call
    imageFile,          \* the submitted File
    base64Image,        \* the payload produced by preprocessing
    retryCount,         \* loop counter of the retry loop
    response,           \* the loop's `response` variable
    result,             \* the GenerateImageResponse returned
    attempts,           \* log of the requests sent (route, outcome)
    timers,             \* armed, not yet cleared setTimeout timers
    waits,              \* the backoff waits slept so far
    failsLeft,          \* transport stub: failures left before it answers
    processedFile,      \* the File handed to the encoder
    viteEnv,            \* import.meta.env of the client build
    upstreamCalls,      \* requests the proxy sent upstream for this submission
    event,              \* proxy: the last event handled
    apiKey,             \* proxy: process.env at that invocation
    proxyVariant,       \* proxy: which handler handled it
    upstream,           \* proxy: behaviour of the upstream service at that call
    reply               \* proxy: what the handler returned

appVars    == <<state, originalImageUrl, generatedImageUrl, error>>
clientVars == <<variant, pc, imageFile, base64Image, retryCount, response,
                result, attempts, timers, waits, failsLeft, processedFile,
                viteEnv, upstreamCalls>>
proxyVars  == <<event, apiKey, proxyVariant, upstream, reply>>
vars       == <<appVars, clientVars, proxyVars>>

-----------------------------------------------------------------------------
(* Text and JSON helpers                                                   *)

Str(s) == <<s>>

Has(r, k) == k \in DOMAIN r

\* JavaScript truthiness of a property that holds text ('' is falsy)
Truthy(r, k) == Has(r, k) /\ r[k] # <<>>

\* JavaScript truthiness of a property that holds a boolean
IsTrue(r, k) == Has(r, k) /\ r[k] = TRUE

\* String.prototype.includes, on fragments
Includes(s, frag) == \E i \in 1..Len(s) : s[i] = frag

\* x || dflt
OrElse(r, k, dflt) == IF Truthy(r, k) THEN r[k] ELSE dflt

\* the object {} (no property)
EmptyObject == [k \in {} |-> <<>>]

-----------------------------------------------------------------------------
(* base64: FileReader.readAsDataURL / canvas.toDataURL on the client,      *)
(* Buffer.from(..., 'base64') in the proxy.  Bytes are 0..255, a base64    *)
(* character is a one-character fragment.                                  *)

B64Chars ==
    <<"A","B","C","D","E","F","G","H","I","J","K","L","M","N","O","P",
      "Q","R","S","T","U","V","W","X","Y","Z","a","b","c","d","e","f",
      "g","h","i","j","k","l","m","n","o","p","q","r","s","t","u","v",
      "w","x","y","z","0","1","2","3","4","5","6","7","8","9","+","/">>

B64Char(n) == B64Chars[n + 1]

B64Value(c) == (CHOOSE i \in 1..64 : B64Chars[i] = c) - 1

IsB64Char(c) == \E i \in 1..64 : B64Chars[i] = c

RECURSIVE base64Encode(_)
base64Encode(bytes) ==
    IF bytes = <<>> THEN <<>>
    ELSE IF Len(bytes) = 1 THEN
        LET n == bytes[1] * 65536
        IN  <<B64Char(n \div 262144), B64Char((n \div 4096) % 64), "=", "=">>
    ELSE IF Len(bytes) = 2 THEN
        LET n == bytes[1] * 65536 + bytes[2] * 256
        IN  <<B64Char(n \div 262144), B64Char((n \div 4096) % 64),
              B64Char((n \div 64) % 64), "=">>
    ELSE
        LET n == bytes[1] * 65536 + bytes[2] * 256 + bytes[3]
        IN  <<B64Char(n \div 262144), B64Char((n \div 4096) % 64),
              B64Char((n \div 64) % 64), B64Char(n % 64)>>
            \o base64Encode(SubSeq(bytes, 4, Len(bytes)))

\* Buffer.from(text, 'base64'): decodes up to the first padding character
RECURSIVE base64Decode(_)
base64Decode(text) ==
    LET ok(i) == i <= Len(text) /\ IsB64Char(text[i])
        v(i)  == B64Value(text[i])
    IN  IF ok(1) /\ ok(2) /\ ok(3) /\ ok(4) THEN
            LET n == v(1) * 262144 + v(2) * 4096 + v(3) * 64 + v(4)
            IN  <<n \div 65536, (n \div 256) % 256, n % 256>>
                \o base64Decode(SubSeq(text, 5, Len(text)))
        ELSE IF ok(1) /\ ok(2) /\ ok(3) THEN
            LET n == v(1) * 262144 + v(2) * 4096 + v(3) * 64
            IN  <<n \div 65536, (n \div 256) % 256>>
        ELSE IF ok(1) /\ ok(2) THEN
            LET n == v(1) * 262144 + v(2) * 4096
            IN  <<n \div 65536>>
        ELSE <<>>

\* index of the first "," of a text, 0 when there is none
FirstComma(text) ==
    IF \E i \in 1..Len(text) : text[i] = ","
    THEN CHOOSE i \in 1..Len(text) :
            text[i] = "," /\ \A j \in 1..(i - 1) : text[j] # ","
    ELSE 0

\* text.split(',')[1]: defined only when the text has a comma
HasSplit1(text) == FirstComma(text) > 0

Split1(text) ==
    LET rest == SubSeq(text, FirstComma(text) + 1, Len(text))
        c    == FirstComma(rest)
    IN  IF c = 0 THEN rest ELSE SubSeq(rest, 1, c - 1)

\* image.match(/^data:([^;]+);base64,/)
mimeMatch(image) ==
    /\ Len(image) >= 4
    /\ image[1] = "data:"
    /\ image[2] \notin {";", ",", ";base64"}
    /\ image[3] = ";base64"
    /\ image[4] = ","

\* the data URL `data:<mime>;base64,<b64 of bytes>`
DataURL(mime, bytes) == <<"data:", mime, ";base64", ",">> \o base64Encode(bytes)

-----------------------------------------------------------------------------
(* The serverless proxy                                                    *)

OPENAI_API_URL == Str("https://api.openai.com/v1/images/edits")

\* the fixed style directive (its text is configuration, kept as one fragment)
SOUTH_PARK_PROMPT == Str("Transform this image into a cartoon illustration in the distinctive South Park TV show animation style. ...")

\* `headers` of the CORS-enabled handlers
headers ==
    [AccessControlAllowOrigin  |-> Str("*"),
     AccessControlAllowHeaders |-> Str("Content-Type"),
     AccessControlAllowMethods |-> Str("POST, OPTIONS")]

\* response.ok of a fetch Response
ok(r) == r.status >= 200 /\ r.status <= 299

\* what a handler run amounts to: the value it returns (absent while it never
\* returns) and the requests it sent upstream
Returns(resp, sent) == [response |-> resp, fetched |-> sent]
Pending(sent)       == [fetched |-> sent]

TypeErrorLength == Str("Cannot read properties of undefined (reading 'length')")
TypeErrorSplit  == Str("Cannot read properties of undefined (reading 'split')")
TypeErrorBuffer == Str("The first argument must be of type string or an instance of Buffer, ArrayBuffer, or Array or an Array-like Object. Received undefined")
SyntaxErrorJSON == Str("Unexpected token < in JSON at position 0")
FetchErrorNet   == Str("request to https://api.openai.com/v1/images/edits failed, reason: connect ECONNREFUSED")
FetchErrorJSON  == Str("invalid json response body at https://api.openai.com/v1/images/edits reason: Unexpected token < in JSON at position 0")
FetchErrorTime  == Str("network timeout at: https://api.openai.com/v1/images/edits")

\* event.httpMethod === 'OPTIONS'
isPreflight(ev) == ev.httpMethod = "OPTIONS"

\* variation: GET is let through like POST
notPostNorGet(ev) == ev.httpMethod \notin {"POST", "GET"}

\* event.httpMethod !== 'POST'
notPost(ev) == ev.httpMethod # "POST"

\* !event.body
NoBody(ev) == ~Has(ev, "body") \/ ev.body = [text |-> <<>>]

\* !apiKey
NoKey(env) == ~Truthy(env, "OPENAI_API_KEY")

\* variation: only the first placeholder marker is recognised
PlaceholderFirstMarker(key) == Includes(key, "your_ope")

\* apiKey.includes('your_ope') || apiKey.includes('************')
Placeholder(key) == Includes(key, "your_ope") \/ Includes(key, "************")

\* errorData.error?.message || 'Unknown error'
upstreamMessage(errorData) ==
    IF Has(errorData, "error") /\ Truthy(errorData.error, "message")
    THEN errorData.error.message
    ELSE Str("Unknown error")

\* !data.data || !Array.isArray(data.data) || data.data.length === 0
noData(data) == ~Has(data, "data") \/ data.data = <<>>

\* the catch block of the CORS-enabled handlers
caughtCors(message, sent) ==
    Returns([statusCode |-> 500, headers |-> headers,
             body |-> [json |-> [success |-> FALSE,
                                 error |-> Str("Failed to generate image: ") \o message]]],
            sent)

\* the catch block of the handler without CORS support
caughtPlain(message, sent) ==
    Returns([statusCode |-> 500,
             body |-> [json |-> [success |-> FALSE,
                                 error |-> Str("Failed to generate image: ") \o message]]],
            sent)

\* variation: the normaliser prefers b64_json to url
normalizeCorsB64First(data, sent) ==
    IF noData(data) THEN
        Returns([statusCode |-> 500,
                 body |-> [json |-> [success |-> FALSE,
                                     error |-> Str("No image data returned from OpenAI Image API")]]],
                sent)
    ELSE LET imageData == data.data[1] IN
        IF Truthy(imageData, "b64_json") THEN
            Returns([statusCode |-> 200, headers |-> headers,
                     body |-> [json |-> [success |-> TRUE,
                                         imageUrl |-> Str("data:image/png;base64,") \o imageData.b64_json]]],
                    sent)
        ELSE IF Truthy(imageData, "url") THEN
            Returns([statusCode |-> 200, headers |-> headers,
                     body |-> [json |-> [success |-> TRUE, imageUrl |-> imageData.url]]],
                    sent)
        ELSE
            Returns([statusCode |-> 500,
                     body |-> [json |-> [success |-> FALSE,
                                         error |-> Str("No image URL or base64 data in response")]]],
                    sent)

\* the normaliser of the CORS-enabled handlers: first element of data only
normalizeCors(data, sent) ==
    IF noData(data) THEN
        Returns([statusCode |-> 500,
                 body |-> [json |-> [success |-> FALSE,
                                     error |-> Str("No image data returned from OpenAI Image API")]]],
                sent)
    ELSE LET imageData == data.data[1] IN
        IF Truthy(imageData, "url") THEN
            Returns([statusCode |-> 200, headers |-> headers,
                     body |-> [json |-> [success |-> TRUE, imageUrl |-> imageData.url]]],
                    sent)
        ELSE IF Truthy(imageData, "b64_json") THEN
            Returns([statusCode |-> 200, headers |-> headers,
                     body |-> [json |-> [success |-> TRUE,
                                         imageUrl |-> Str("data:image/png;base64,") \o imageData.b64_json]]],
                    sent)
        ELSE
            Returns([statusCode |-> 500,
                     body |-> [json |-> [success |-> FALSE,
                                         error |-> Str("No image URL or base64 data in response")]]],
                    sent)

\* the normaliser of the handler without CORS support
normalizePlain(data, sent) ==
    IF noData(data) THEN
        Returns([statusCode |-> 500,
                 body |-> [json |-> [success |-> FALSE,
                                     error |-> Str("No image data returned from OpenAI Image API")]]],
                sent)
    ELSE LET imageData == data.data[1] IN
        IF Truthy(imageData, "url") THEN
            Returns([statusCode |-> 200,
                     body |-> [json |-> [success |-> TRUE, imageUrl |-> imageData.url]]],
                    sent)
        ELSE IF Truthy(imageData, "b64_json") THEN
            Returns([statusCode |-> 200,
                     body |-> [json |-> [success |-> TRUE,
                                         imageUrl |-> Str("data:image/png;base64,") \o imageData.b64_json]]],
                    sent)
        ELSE
            Returns([statusCode |-> 500,
                     body |-> [json |-> [success |-> FALSE,
                                         error |-> Str("No image URL or base64 data in response")]]],
                    sent)

\* variation: a body that parses is accepted without looking at image
parseErrorSyntaxOnly(body) ==
    IF ~Has(body, "json") THEN SyntaxErrorJSON ELSE <<>>

\* JSON.parse(event.body) and the reads of `image` that follow it in the
\* CORS-enabled handlers: the message of the error thrown, '' when none is
parseError(body) ==
    IF ~Has(body, "json") THEN SyntaxErrorJSON
    ELSE IF ~Has(body.json, "image") THEN TypeErrorLength
    ELSE IF ~HasSplit1(body.json.image) THEN TypeErrorLength
    ELSE <<>>

\* the same in the handler without CORS support
parseErrorPlain(body) ==
    IF ~Has(body, "json") THEN SyntaxErrorJSON
    ELSE IF ~Has(body.json, "image") THEN TypeErrorSplit
    ELSE IF ~HasSplit1(body.json.image) THEN TypeErrorBuffer
    ELSE <<>>

\* const { image } = JSON.parse(event.body)
imageOf(body) == IF Has(body.json, "image") THEN body.json.image ELSE <<>>

\* mimeType.split('/')[1] || 'png'
fileExtension(mimeType) ==
    CASE mimeType = "image/png"  -> "png"
      [] mimeType = "image/jpeg" -> "jpeg"
      [] mimeType = "image/jpg"  -> "jpg"
      [] mimeType = "image/gif"  -> "gif"
      [] mimeType = "image/webp" -> "webp"
      [] OTHER                   -> "png"

\* variation: an upstream error is passed on with status 200
upstreamErrorAs200(up, hdrs, sent) ==
    IF ~Has(up.body, "json") THEN
        IF hdrs THEN caughtCors(FetchErrorJSON, sent) ELSE caughtPlain(FetchErrorJSON, sent)
    ELSE
        LET b == [json |-> [success |-> FALSE,
                            error |-> Str("OpenAI Error: ") \o upstreamMessage(up.body.json)]]
        IN  IF hdrs
            THEN Returns([statusCode |-> 200, headers |-> headers, body |-> b], sent)
            ELSE Returns([statusCode |-> 200, body |-> b], sent)

\* variation: every upstream error is answered 500
upstreamErrorAs500(up, hdrs, sent) ==
    LET message == IF Has(up.body, "json")
                   THEN Str("OpenAI Error: ") \o upstreamMessage(up.body.json)
                   ELSE FetchErrorJSON
    IN  IF hdrs THEN caughtCors(message, sent) ELSE caughtPlain(message, sent)

\* the answer to a non-2xx upstream response
upstreamError(up, hdrs, sent) ==
    IF ~Has(up.body, "json") THEN
        IF hdrs THEN caughtCors(FetchErrorJSON, sent) ELSE caughtPlain(FetchErrorJSON, sent)
    ELSE
        LET b == [json |-> [success |-> FALSE,
                            error |-> Str("OpenAI Error: ") \o upstreamMessage(up.body.json)]]
        IN  IF hdrs
            THEN Returns([statusCode |-> up.status, headers |-> headers, body |-> b], sent)
            ELSE Returns([statusCode |-> up.status, body |-> b], sent)

\* CORS-enabled handler without upstream timeout
handlerCors(ev, env, up) ==
    IF isPreflight(ev) THEN
        Returns([statusCode |-> 200, headers |-> headers, body |-> [text |-> <<>>]], <<>>)
    ELSE IF notPost(ev) THEN
        Returns([statusCode |-> 405, headers |-> headers,
                 body |-> [json |-> [error |-> Str("Method not allowed")]]], <<>>)
    ELSE IF NoKey(env) THEN
        Returns([statusCode |-> 500, headers |-> headers,
                 body |-> [json |-> [success |-> FALSE,
                     error |-> Str("OpenAI API key not configured. Please check your Netlify environment variables.")]]],
                <<>>)
    ELSE IF Placeholder(env.OPENAI_API_KEY) THEN
        Returns([statusCode |-> 500, headers |-> headers,
                 body |-> [json |-> [success |-> FALSE,
                     error |-> Str("OpenAI API key is still using placeholder value. Please check your Netlify environment variables.")]]],
                <<>>)
    ELSE IF NoBody(ev) THEN
        Returns([statusCode |-> 400, headers |-> headers,
                 body |-> [json |-> [success |-> FALSE, error |-> Str("No image data provided")]]],
                <<>>)
    ELSE IF parseError(ev.body) # <<>> THEN caughtCors(parseError(ev.body), <<>>)
    ELSE
        LET image       == imageOf(ev.body)
            base64Data  == Split1(image)
            imageBuffer == base64Decode(base64Data)
            mimeType    == IF mimeMatch(image) THEN image[2] ELSE "image/png"
            request     ==
                [url           |-> OPENAI_API_URL,
                 Authorization |-> Str("Bearer ") \o env.OPENAI_API_KEY,
                 model         |-> "gpt-image-1",
                 prompt        |-> SOUTH_PARK_PROMPT,
                 image         |-> [buffer      |-> imageBuffer,
                                    filename    |-> <<"image.", fileExtension(mimeType)>>,
                                    contentType |-> mimeType],
                 size          |-> "1024x1024",
                 quality       |-> "medium"]
            sent        == <<request>>
        IN  CASE up.kind = "reject" -> caughtCors(FetchErrorNet, sent)
              [] up.kind = "silent" -> Pending(sent)
              [] up.kind = "http"   ->
                    IF ~ok(up) THEN upstreamError(up, TRUE, sent)
                    ELSE IF ~Has(up.body, "json") THEN caughtCors(FetchErrorJSON, sent)
                    ELSE normalizeCors(up.body.json, sent)

\* CORS-enabled handler that aborts the upstream call after 30 s
handlerTimed(ev, env, up) ==
    IF isPreflight(ev) THEN
        Returns([statusCode |-> 200, headers |-> headers, body |-> [text |-> <<>>]], <<>>)
    ELSE IF notPost(ev) THEN
        Returns([statusCode |-> 405, headers |-> headers,
                 body |-> [json |-> [error |-> Str("Method not allowed")]]], <<>>)
    ELSE IF NoKey(env) THEN
        Returns([statusCode |-> 500, headers |-> headers,
                 body |-> [json |-> [success |-> FALSE,
                     error |-> Str("OpenAI API key not configured. Please check your Netlify environment variables.")]]],
                <<>>)
    ELSE IF Placeholder(env.OPENAI_API_KEY) THEN
        Returns([statusCode |-> 500, headers |-> headers,
                 body |-> [json |-> [success |-> FALSE,
                     error |-> Str("OpenAI API key is still using placeholder value. Please check your Netlify environment variables.")]]],
                <<>>)
    ELSE IF NoBody(ev) THEN
        Returns([statusCode |-> 400, headers |-> headers,
                 body |-> [json |-> [success |-> FALSE, error |-> Str("No image data provided")]]],
                <<>>)
    ELSE IF parseError(ev.body) # <<>> THEN caughtCors(parseError(ev.body), <<>>)
    ELSE
        LET image       == imageOf(ev.body)
            base64Data  == Split1(image)
            imageBuffer == base64Decode(base64Data)
            request     ==
                [url           |-> OPENAI_API_URL,
                 Authorization |-> Str("Bearer ") \o env.OPENAI_API_KEY,
                 model         |-> "dall-e-2",
                 prompt        |-> SOUTH_PARK_PROMPT,
                 image         |-> [buffer      |-> imageBuffer,
                                    filename    |-> <<"image.", "png">>,
                                    contentType |-> "image/png"],
                 size          |-> "512x512",
                 n             |-> "1"]
            sent        == <<request>>
        IN  CASE up.kind = "reject" -> caughtCors(FetchErrorNet, sent)
              [] up.kind = "silent" ->
                    Returns([statusCode |-> 408, headers |-> headers,
                             body |-> [json |-> [success |-> FALSE,
                                                 error |-> Str("Request timed out. Please try again.")]]],
                            sent)
              [] up.kind = "http"   ->
                    IF ~ok(up) THEN upstreamError(up, TRUE, sent)
                    ELSE IF ~Has(up.body, "json") THEN caughtCors(FetchErrorJSON, sent)
                    ELSE normalizeCors(up.body.json, sent)

\* handler without CORS support (node-fetch timeout of 2 minutes)
handlerPlain(ev, env, up) ==
    IF notPost(ev) THEN
        Returns([statusCode |-> 405,
                 body |-> [json |-> [error |-> Str("Method not allowed")]]], <<>>)
    ELSE IF NoKey(env) THEN
        Returns([statusCode |-> 500,
                 body |-> [json |-> [success |-> FALSE,
                     error |-> Str("OpenAI API key not configured. Please check your Netlify environment variables.")]]],
                <<>>)
    ELSE IF Placeholder(env.OPENAI_API_KEY) THEN
        Returns([statusCode |-> 500,
                 body |-> [json |-> [success |-> FALSE,
                     error |-> Str("OpenAI API key is still using placeholder value. Please check your Netlify environment variables.")]]],
                <<>>)
    ELSE IF NoBody(ev) THEN
        Returns([statusCode |-> 400,
                 body |-> [json |-> [success |-> FALSE, error |-> Str("No image data provided")]]],
                <<>>)
    ELSE IF parseErrorPlain(ev.body) # <<>> THEN caughtPlain(parseErrorPlain(ev.body), <<>>)
    ELSE
        LET image       == imageOf(ev.body)
            imageBuffer == base64Decode(Split1(image))
            request     ==
                [url           |-> OPENAI_API_URL,
                 Authorization |-> Str("Bearer ") \o env.OPENAI_API_KEY,
                 model         |-> "gpt-image-1",
                 prompt        |-> SOUTH_PARK_PROMPT,
                 image         |-> [buffer      |-> imageBuffer,
                                    filename    |-> <<"image.", "png">>,
                                    contentType |-> "image/png"],
                 size          |-> "1024x1024",
                 quality       |-> "medium"]
            sent        == <<request>>
        IN  CASE up.kind = "reject" -> caughtPlain(FetchErrorNet, sent)
              [] up.kind = "silent" -> caughtPlain(FetchErrorTime, sent)
              [] up.kind = "http"   ->
                    IF ~ok(up) THEN upstreamError(up, FALSE, sent)
                    ELSE IF ~Has(up.body, "json") THEN caughtPlain(FetchErrorJSON, sent)
                    ELSE normalizePlain(up.body.json, sent)

ProxyVariants == {"cors", "timed", "plain"}

handler(pv, ev, env, up) ==
    CASE pv = "cors"  -> handlerCors(ev, env, up)
      [] pv = "timed" -> handlerTimed(ev, env, up)
      [] pv = "plain" -> handlerPlain(ev, env, up)

-----------------------------------------------------------------------------
(* Inputs of the proxy                                                     *)

Methods == {"POST", "OPTIONS", "GET", "PUT"}

ValidKeys == {Str("sk-proj-A"), Str("sk-proj-B")}

\* process.env: no key, an empty key, the two placeholders, real keys
Envs ==
    {EmptyObject, [OPENAI_API_KEY |-> <<>>],
     [OPENAI_API_KEY |-> <<"your_ope", "nai_api_key_here">>],
     [OPENAI_API_KEY |-> <<"sk-", "************">>]}
    \cup {[OPENAI_API_KEY |-> k] : k \in ValidKeys}

Configured(env) == ~NoKey(env) /\ ~Placeholder(env.OPENAI_API_KEY)

\* bodies of a 2xx upstream answer
UpstreamData ==
    {[json |-> [data |-> <<[url |-> Str("https://cdn.openai.example/img-1.png")]>>]],
     [json |-> [data |-> <<[b64_json |-> <<"Q", "U", "I", "=">>]>>]],
     [json |-> [data |-> <<[url |-> Str("https://cdn.openai.example/img-1.png"),
                            b64_json |-> <<"Q", "U", "I", "=">>]>>]],
     [json |-> [data |-> <<[revised_prompt |-> Str("a cartoon")]>>]],
     [json |-> [data |-> <<[revised_prompt |-> Str("a cartoon")],
                            [url |-> Str("https://cdn.openai.example/img-2.png")]>>]],
     [json |-> [data |-> <<[url |-> <<>>, b64_json |-> <<"Q", "U", "I", "=">>]>>]],
     [json |-> [data |-> <<>>]],
     [json |-> [created |-> Str("1700000000")]],
     [text |-> Str("<html>Bad Gateway</html>")]}

\* bodies of a non-2xx upstream answer
UpstreamErrors ==
    {[json |-> [error |-> [message |-> Str("Rate limit reached")]]],
     [json |-> [error |-> [code |-> Str("invalid_request")]]],
     [json |-> EmptyObject],
     [text |-> Str("<html>Bad Gateway</html>")]}

UpstreamErrorStatuses == {400, 401, 429, 500}

\* what the upstream service does with one request
Upstreams ==
    {[kind |-> "reject"], [kind |-> "silent"]}
    \cup {[kind |-> "http", status |-> 200, body |-> b] : b \in UpstreamData}
    \cup {[kind |-> "http", status |-> st, body |-> b] :
            st \in UpstreamErrorStatuses, b \in UpstreamErrors}

\* encoded image content: a magic byte and the two dimensions, big-endian
Magic(format) ==
    CASE format = "png"  -> 137
      [] format = "jpeg" -> 255
      [] format = "gif"  -> 71

encodeImage(format, width, height) ==
    <<Magic(format), width \div 256, width % 256, height \div 256, height % 256>>

\* request bodies the proxy is invoked with
Bodies ==
    {[text |-> <<>>], [text |-> Str("<not json>")],
     [json |-> [test |-> TRUE]], [json |-> EmptyObject],
     [json |-> [image |-> DataURL("image/png", encodeImage("png", 800, 600))]],
     [json |-> [image |-> DataURL("image/jpeg", encodeImage("jpeg", 1024, 512))]],
     [json |-> [image |-> Str("iVBORw0KGgo")]],
     [json |-> [image |-> <<"garbage", ",", "Q", "U", "I", "=">>]]}

Events ==
    {[httpMethod |-> m] : m \in Methods}
    \cup {[httpMethod |-> m, body |-> b] : m \in Methods, b \in Bodies}

-----------------------------------------------------------------------------
(* The client service: preprocessing                                       *)

TenMiB   == 10 * 1024 * 1024
FiftyMiB == 50 * 1024 * 1024

maxDimension == 1024

\* variation: an allow-list that also admits image/webp
supportedTypesWithWebp ==
    {"image/png", "image/jpeg", "image/jpg", "image/gif", "image/webp"}

supportedTypes == {"image/png", "image/jpeg", "image/jpg", "image/gif"}

\* the browser's image decoder: img.onload fires with the natural size, or
\* the load fails
Decodable(bytes) == Len(bytes) = 5 /\ bytes[1] \in {137, 255, 71}

imgWidth(bytes)  == bytes[2] * 256 + bytes[3]
imgHeight(bytes) == bytes[4] * 256 + bytes[5]

\* the canvas size compressImage computes in img.onload; assigning a
\* fraction to canvas.width / canvas.height truncates it
canvasSize(width, height) ==
    IF width > height THEN
        IF width > maxDimension
        THEN [width |-> maxDimension, height |-> (height * maxDimension) \div width]
        ELSE [width |-> width, height |-> height]
    ELSE
        IF height > maxDimension
        THEN [width |-> (width * maxDimension) \div height, height |-> maxDimension]
        ELSE [width |-> width, height |-> height]

\* compressImage once the image has loaded: the JPEG file made from the
\* canvas, or the file itself when canvas.toBlob yields no blob (a canvas
\* with an empty side)
compressImage(file) ==
    LET c == canvasSize(imgWidth(file.bytes), imgHeight(file.bytes))
    IN  IF c.width > 0 /\ c.height > 0
        THEN [type  |-> "image/jpeg",
              size  |-> Len(encodeImage("jpeg", c.width, c.height)),
              bytes |-> encodeImage("jpeg", c.width, c.height)]
        ELSE file

\* convertImageToPNG once the image has loaded: canvas.toDataURL('image/png')
convertImageToPNG(file) ==
    DataURL("image/png", encodeImage("png", imgWidth(file.bytes), imgHeight(file.bytes)))

\* fileToBase64: FileReader.readAsDataURL
fileToBase64(file) == DataURL(file.type, file.bytes)

\* convertImageToBase64: the data URL without its prefix
convertImageToBase64(file) == Split1(fileToBase64(file))

\* the size above which a variant compresses before encoding
compressAbove(v) == IF v = "direct" THEN FiftyMiB ELSE TenMiB

\* `Unsupported file type: ${imageFile.type}. Please use PNG, JPEG, or GIF.`
unsupportedType(type) ==
    [success |-> FALSE,
     error   |-> <<"Unsupported file type: ", type, ". Please use PNG, JPEG, or GIF.">>]

\* variation: without the outer catch block the promise rejects
caughtRejecting(message) == [rejected |-> message]

\* the outer catch block of generateSouthParkImage
caught(message) ==
    [success |-> FALSE, error |-> Str("Failed to generate image: ") \o message]

UnknownError   == Str("Unknown error")
FailedToFetch  == Str("Failed to fetch")
AbortedMessage == Str("The user aborted a request.")
JSONParseError == Str("Unexpected token < in JSON at position 0")

-----------------------------------------------------------------------------
(* The client service: dispatch and response handling                      *)

maxRetries == 2

Min(a, b) == IF a < b THEN a ELSE b

RECURSIVE Pow2(_)
Pow2(n) == IF n = 0 THEN 1 ELSE 2 * Pow2(n - 1)

\* variation: the exponent counts retries from zero
waitTimeFromZero(rc) == Min(1000 * Pow2(rc - 1), 5000)

\* Math.min(1000 * Math.pow(2, retryCount), 5000)
waitTime(rc) == Min(1000 * Pow2(rc), 5000)

\* while (retryCount <= maxRetries)
loopContinues(rc) == rc <= maxRetries

\* variation: the loop gives up on the first rejected fetch
givesUpAtOnce(rc) == rc > 0

\* variation: the loop gives up one retry early
givesUpEarly(rc) == rc >= maxRetries

\* variation: the rethrow comes one failure too late
givesUpLate(rc) == rc > maxRetries + 1

\* if (retryCount > maxRetries) throw fetchError
givesUp(rc) == rc > maxRetries

\* variation: the fallback route is tried after any failure of the first attempt
triesBackgroundOnAnyError(v, name, rc) == v = "fallback" /\ rc = 0

\* variation: the fallback route is still tried after one retry
triesBackgroundTwice(v, name, rc) == v = "fallback" /\ name = "AbortError" /\ rc <= 1

\* variation: the fallback route is tried after every timeout
triesBackgroundAgain(v, name, rc) == v = "fallback" /\ name = "AbortError"

\* (error as Error).name === 'AbortError' && retryCount === 0
triesBackground(v, name, rc) == v = "fallback" /\ name = "AbortError" /\ rc = 0

\* error.message of a rejected fetch
fetchMessage(name) == IF name = "AbortError" THEN AbortedMessage ELSE FailedToFetch

\* variation: the switch has no case for 413
statusMessageNo413(status) ==
    CASE status = 504 -> Str("Request timed out. The image may be too large or complex. Please try with a smaller or simpler image.")
      [] status = 408 -> Str("Request timed out. Please try again with a smaller image.")
      [] status = 429 -> Str("Too many requests. Please wait a moment and try again.")
      [] status = 500 -> Str("Server error. Please try again in a few moments.")
      [] OTHER        -> <<"Server error (", ToString(status), "). Please try again.">>

\* the switch on response.status of the retrying variants
statusMessage(status) ==
    CASE status = 504 -> Str("Request timed out. The image may be too large or complex. Please try with a smaller or simpler image.")
      [] status = 408 -> Str("Request timed out. Please try again with a smaller image.")
      [] status = 413 -> Str("Image file is too large. Please use a smaller image.")
      [] status = 429 -> Str("Too many requests. Please wait a moment and try again.")
      [] status = 500 -> Str("Server error. Please try again in a few moments.")
      [] OTHER        -> <<"Server error (", ToString(status), "). Please try again.">>

\* the same place in the probing variant
statusMessageProbe(status) ==
    IF status = 504
    THEN Str("Request timed out. Please try again with a smaller image.")
    ELSE <<"Server error (", ToString(status), "). Please try again.">>

\* variation: only the success flag is looked at
noImageFlagOnly(data) == ~IsTrue(data, "success")

\* if (!data.success || !data.imageUrl)
noImage(data) == ~IsTrue(data, "success") \/ ~Truthy(data, "imageUrl")

\* { success: true, imageUrl: data.imageUrl }
succeeded(data) ==
    IF Has(data, "imageUrl")
    THEN [success |-> TRUE, imageUrl |-> data.imageUrl]
    ELSE [success |-> TRUE]

\* what a 2xx response of the proxy becomes
fromData(body) ==
    IF ~Has(body, "json") THEN caught(JSONParseError)
    ELSE IF noImage(body.json)
    THEN [success |-> FALSE, error |-> OrElse(body.json, "error", Str("No image URL returned"))]
    ELSE succeeded(body.json)

\* generateSouthParkImage from `if (!response)` on, retrying variants
fromResponse(resp) ==
    IF resp = EmptyObject THEN
        [success |-> FALSE, error |-> Str("Failed to connect to server after multiple attempts")]
    ELSE IF ~ok(resp) THEN
        IF Has(resp.body, "json")
        THEN [success |-> FALSE,
              error |-> OrElse(resp.body.json, "error", Str("Failed to generate image"))]
        ELSE [success |-> FALSE, error |-> statusMessage(resp.status)]
    ELSE fromData(resp.body)

\* generateSouthParkImage from `if (!response.ok)` on, probing variant
fromResponseProbe(resp) ==
    IF ~ok(resp) THEN
        IF Has(resp.body, "json")
        THEN [success |-> FALSE,
              error |-> OrElse(resp.body.json, "error", Str("Failed to generate image"))]
        ELSE [success |-> FALSE, error |-> statusMessageProbe(resp.status)]
    ELSE fromData(resp.body)

\* data.output?.map(o => o.type).join(', ') || 'none'
RECURSIVE joinTypes(_)
joinTypes(output) ==
    IF output = <<>> THEN <<>>
    ELSE IF Len(output) = 1 THEN Str(output[1].type)
    ELSE <<output[1].type, ", ">> \o joinTypes(Tail(output))

outputTypes(data) ==
    IF Has(data, "output") /\ joinTypes(data.output) # <<>>
    THEN joinTypes(data.output) ELSE Str("none")

\* variation: the filter also drops calls without a result
imageGenerationCallsWithResult(data) ==
    IF Has(data, "output")
    THEN SelectSeq(data.output,
                   LAMBDA o : o.type = "image_generation_call" /\ Truthy(o, "result"))
    ELSE <<>>

\* data.output?.filter(output => output.type === 'image_generation_call')
imageGenerationCalls(data) ==
    IF Has(data, "output")
    THEN SelectSeq(data.output, LAMBDA o : o.type = "image_generation_call")
    ELSE <<>>

\* atob succeeds on well-formed base64 only
atobOk(text) ==
    /\ Len(text) % 4 = 0
    /\ \A i \in 1..Len(text) :
          IsB64Char(text[i]) \/ (text[i] = "=" /\ i >= Len(text) - 1)

\* generateSouthParkImage from `if (!response.ok)` on, direct variant
fromResponseDirect(resp) ==
    IF ~Has(resp.body, "json") THEN caught(JSONParseError)
    ELSE IF ~ok(resp) THEN
        [success |-> FALSE, error |-> Str("OpenAI Error: ") \o upstreamMessage(resp.body.json)]
    ELSE
        LET data  == resp.body.json
            calls == imageGenerationCalls(data)
        IN  IF calls = <<>> THEN
                [success |-> FALSE,
                 error |-> Str("No image generation call found in response. Available output types: ")
                           \o outputTypes(data)]
            ELSE IF ~Truthy(calls[1], "result") THEN
                [success |-> FALSE, error |-> Str("No image data returned from GPT Image")]
            ELSE IF ~atobOk(calls[1].result) THEN
                caught(Str("Failed to execute 'atob' on 'Window': The string to be decoded is not correctly encoded."))
            ELSE
                [success |-> TRUE, imageUrl |-> Str("blob:") \o calls[1].result]

-----------------------------------------------------------------------------
(* Inputs of the client                                                    *)

Variants == {"fallback", "retry", "probe", "direct"}

\* the variants whose requests carry an AbortController signal
hasTimer(v) == v \in {"fallback", "retry"}

\* the variants that retry
hasLoop(v) == v \in {"fallback", "retry"}

\* the most transport failures the stub is told to produce
MaxFail == 4

FileTypes == supportedTypes \cup {"image/webp", ""}

FileSizes == {TenMiB, TenMiB + 1, FiftyMiB + 1}

\* file contents: a small PNG, a large JPEG, corrupt data
FileContents == {encodeImage("png", 800, 600), encodeImage("jpeg", 4000, 2000), <<0, 0>>}

Files == [type : FileTypes, size : FileSizes, bytes : FileContents]

\* import.meta.env of the direct variant
ViteEnvs ==
    {EmptyObject, [VITE_OPENAI_API_KEY |-> <<"your_ope", "nai_api_key_here">>],
     [VITE_OPENAI_API_KEY |-> Str("sk-proj-A")]}

\* 'Authorization': `Bearer ${apiKey}` of the direct variant's request,
\* sent from the browser
clientAuthorization(env) == Str("Bearer ") \o env.VITE_OPENAI_API_KEY

\* answers that no handler produced: the platform's gateway, other deployments
OtherResponses ==
    {[status |-> 504, body |-> [text |-> Str("<html>Gateway Timeout</html>")]],
     [status |-> 502, body |-> [text |-> Str("<html>Bad Gateway</html>")]],
     [status |-> 413, body |-> [text |-> Str("<html>Payload Too Large</html>")]],
     [status |-> 200, body |-> [text |-> Str("<!doctype html>")]],
     [status |-> 200, body |-> [json |-> [success |-> TRUE]]],
     [status |-> 200, body |-> [json |-> [success |-> TRUE, imageUrl |-> <<>>]]],
     [status |-> 500, body |-> [json |-> EmptyObject]],
     [status |-> 500, body |-> [text |-> Str("Internal Server Error")]],
     [status |-> 408, body |-> [text |-> Str("Request Timeout")]],
     [status |-> 429, body |-> [text |-> Str("Too Many Requests")]],
     [status |-> 429, body |-> [json |-> [message |-> Str("Too Many Requests")]]]}

\* answers of the upstream responses API to the direct variant
DirectResponses ==
    {[status |-> 200, body |-> [json |-> [output |->
        <<[type |-> "message"],
          [type |-> "image_generation_call", result |-> <<"Q", "U", "I", "=">>]>>]]],
     [status |-> 200, body |-> [json |-> [output |->
        <<[type |-> "message"], [type |-> "reasoning"]>>]]],
     [status |-> 200, body |-> [json |-> [output |-> <<>>]]],
     [status |-> 200, body |-> [json |-> [id |-> Str("resp_1")]]],
     [status |-> 200, body |-> [json |-> [output |->
        <<[type |-> "image_generation_call", result |-> <<>>],
          [type |-> "image_generation_call", result |-> <<"Q", "U", "I", "=">>]>>]]],
     [status |-> 200, body |-> [json |-> [output |->
        <<[type |-> "image_generation_call", result |-> <<"*">>]>>]]],
     [status |-> 200, body |-> [text |-> Str("<html>")]],
     [status |-> 401, body |-> [json |-> [error |-> [message |-> Str("Incorrect API key provided")]]]],
     [status |-> 429, body |-> [json |-> EmptyObject]],
     [status |-> 500, body |-> [text |-> Str("<html>")]]}

\* the server side a submission can meet: environments and upstream
\* behaviours, one of each kind
LiveEnvs ==
    {EmptyObject, [OPENAI_API_KEY |-> <<"sk-", "************">>],
     [OPENAI_API_KEY |-> Str("sk-proj-A")]}

LiveUpstreams ==
    {up \in Upstreams :
        \/ up.kind # "http"
        \/ /\ up.status = 200
           /\ up.body \in {[json |-> [data |-> <<[url |-> Str("https://cdn.openai.example/img-1.png")]>>]],
                            [json |-> [data |-> <<[b64_json |-> <<"Q", "U", "I", "=">>]>>]],
                            [json |-> [data |-> <<>>]]}
        \/ /\ up.status = 429
           /\ up.body \in {[json |-> [error |-> [message |-> Str("Rate limit reached")]]],
                            [text |-> Str("<html>Bad Gateway</html>")]}
        \/ /\ up.status = 401
           /\ up.body = [json |-> EmptyObject]
        \/ /\ up.status = 500
           /\ up.body = [text |-> Str("<html>Bad Gateway</html>")]}

\* the fetch Response the client sees for what a handler returned
Response(r) == [status |-> r.response.statusCode, body |-> r.response.body]

-----------------------------------------------------------------------------
(* State machine                                                           *)

NoInvocation == [fetched |-> <<>>]

NoUpstream == [kind |-> "none"]

\* the upstream behaviour a handler run met: none when it sent no request
met(r, up) == IF r.fetched = <<>> THEN NoUpstream ELSE up

Init ==
    /\ state = "upload"
    /\ originalImageUrl = <<>>
    /\ generatedImageUrl = <<>>
    /\ error = <<>>
    /\ variant \in Variants
    /\ viteEnv \in IF variant = "direct" THEN ViteEnvs ELSE {EmptyObject}
    /\ pc = "idle"
    /\ imageFile = EmptyObject
    /\ processedFile = EmptyObject
    /\ base64Image = <<>>
    /\ retryCount = 0
    /\ response = EmptyObject
    /\ result = EmptyObject
    /\ attempts = <<>>
    /\ timers = {}
    /\ waits = <<>>
    /\ failsLeft = 0
    /\ upstreamCalls = 0
    /\ event = EmptyObject
    /\ apiKey = EmptyObject
    /\ proxyVariant = "cors"
    /\ upstream = NoUpstream
    /\ reply = NoInvocation

\* the checks generateSouthParkImage makes before its first await: the
\* result it returns at once, or EmptyObject when it goes on
rejectsAtOnce(v, env, file) ==
    IF v = "direct" /\ ~Truthy(env, "VITE_OPENAI_API_KEY") THEN
        [success |-> FALSE,
         error |-> Str("OpenAI API key not configured. Please add VITE_OPENAI_API_KEY to your environment variables.")]
    ELSE IF v = "direct" /\ Placeholder(env.VITE_OPENAI_API_KEY) THEN
        [success |-> FALSE,
         error |-> Str("OpenAI API key is still using placeholder value. Please check your Netlify environment variables.")]
    ELSE IF file.type \notin supportedTypes THEN unsupportedType(file.type)
    ELSE EmptyObject

\* App.handleImageSelect up to the first await inside generateSouthParkImage
HandleImageSelect(file) ==
    /\ state = "upload"
    /\ pc = "idle"
    /\ state' = "processing"
    /\ originalImageUrl' = Str("blob:original")
    /\ imageFile' = file
    /\ base64Image' = <<>>
    /\ retryCount' = 0
    /\ response' = EmptyObject
    /\ attempts' = <<>>
    /\ waits' = <<>>
    /\ failsLeft' = 0
    /\ upstreamCalls' = 0
    /\ LET r == rejectsAtOnce(variant, viteEnv, file) IN
        IF r # EmptyObject
        THEN /\ result' = r
             /\ processedFile' = EmptyObject
             /\ pc' = "returned"
        ELSE /\ result' = EmptyObject
             /\ processedFile' = file
             /\ pc' = IF file.size > compressAbove(variant) THEN "compress" ELSE "encode"
    /\ UNCHANGED <<generatedImageUrl, error, variant, viteEnv, timers, proxyVars>>

\* the image handed to compressImage loads (or fails to: no onerror handler,
\* the promise never settles)
CompressImage ==
    /\ pc = "compress"
    /\ IF Decodable(processedFile.bytes)
       THEN /\ processedFile' = compressImage(processedFile)
            /\ pc' = "encode"
       ELSE /\ processedFile' = processedFile
            /\ pc' = "stuck"
    /\ UNCHANGED <<appVars, variant, imageFile, base64Image, retryCount, response,
                   result, attempts, timers, waits, failsLeft, viteEnv,
                   upstreamCalls, proxyVars>>

\* the body of the retry loop up to `await fetch(...)`: a controller and a
\* timer are created and the request to the primary endpoint is sent
sendsPrimary ==
    /\ attempts' = Append(attempts, [route |-> "primary", outcome |-> "pending"])
    /\ timers' = IF hasTimer(variant) THEN timers \cup {Len(attempts) + 1} ELSE timers
    /\ pc' = "primary"

\* the encoder settles; the continuation sends the first request
Encode ==
    /\ pc = "encode"
    /\ IF variant = "fallback" /\ ~Decodable(processedFile.bytes)
       THEN \* convertImageToPNG rejects with the error event
            /\ result' = caught(UnknownError)
            /\ pc' = "returned"
            /\ UNCHANGED <<base64Image, attempts, timers, failsLeft>>
       ELSE /\ base64Image' =
                   CASE variant = "fallback" -> convertImageToPNG(processedFile)
                     [] variant = "direct"   -> convertImageToBase64(processedFile)
                     [] OTHER                -> fileToBase64(processedFile)
            /\ result' = result
            /\ failsLeft' \in 0..MaxFail
            /\ CASE variant = "probe" ->
                       /\ attempts' = Append(attempts, [route |-> "probe", outcome |-> "pending"])
                       /\ pc' = "probing"
                       /\ timers' = timers
                 [] variant = "direct" ->
                       /\ attempts' = Append(attempts, [route |-> "openai", outcome |-> "pending"])
                       /\ pc' = "openai"
                       /\ timers' = timers
                 [] OTHER -> sendsPrimary
    \* the File objects are not read again (only logged)
    /\ imageFile' = EmptyObject
    /\ processedFile' = EmptyObject
    /\ UNCHANGED <<appVars, variant, retryCount, response, waits, viteEnv,
                   upstreamCalls, proxyVars>>

\* the outcome of the request in flight is written to the attempt log
marked(outcome) == [attempts EXCEPT ![Len(attempts)].outcome = outcome]

\* variation: a non-2xx response sends the loop into another round
receivesAndRetries(resp) ==
    /\ response' = resp
    /\ timers' = timers \ {Len(attempts)}
    /\ attempts' = marked("response")
    /\ IF hasLoop(variant) /\ ~ok(resp) /\ Len(attempts) <= maxRetries
       THEN /\ result' = result
            /\ pc' = "backoff"
       ELSE /\ result' = CASE variant = "probe"  -> fromResponseProbe(resp)
                            [] variant = "direct" -> fromResponseDirect(resp)
                            [] OTHER              -> fromResponse(resp)
            /\ pc' = "returned"
    /\ UNCHANGED <<appVars, variant, imageFile, base64Image, retryCount, waits,
                   failsLeft, processedFile, viteEnv>>

\* a fetch of the dispatch resolves with `resp`: the timer is cleared, the
\* loop is left and the response is turned into the result
\* variation: the response path forgets clearTimeout(timeoutId)
receivesLeavingTimer(resp) ==
    /\ response' = resp
    /\ timers' = timers
    /\ attempts' = marked("response")
    /\ result' = CASE variant = "probe"  -> fromResponseProbe(resp)
                    [] variant = "direct" -> fromResponseDirect(resp)
                    [] OTHER              -> fromResponse(resp)
    /\ pc' = "returned"
    /\ UNCHANGED <<appVars, variant, imageFile, base64Image, retryCount, waits,
                   failsLeft, processedFile, viteEnv>>

receives(resp) ==
    /\ response' = resp
    /\ timers' = timers \ {Len(attempts)}
    /\ attempts' = marked("response")
    /\ result' = CASE variant = "probe"  -> fromResponseProbe(resp)
                    [] variant = "direct" -> fromResponseDirect(resp)
                    [] OTHER              -> fromResponse(resp)
    /\ pc' = "returned"
    /\ UNCHANGED <<appVars, variant, imageFile, base64Image, retryCount, waits,
                   failsLeft, processedFile, viteEnv>>

\* the request in flight reaches a proxy handler, which answers it
Answered(pv, env, up) ==
    /\ pc \in {"primary", "secondary"}
    /\ failsLeft = 0
    /\ LET ev == [httpMethod |-> "POST", body |-> [json |-> [image |-> base64Image]]]
           r  == handler(pv, ev, env, up)
       IN  /\ Has(r, "response")
           /\ event' = ev
           /\ apiKey' = env
           /\ proxyVariant' = pv
           /\ upstream' = met(r, up)
           /\ reply' = r
           /\ upstreamCalls' = upstreamCalls + Len(r.fetched)
           /\ receives(Response(r))

\* the request in flight is answered by the platform in front of the handlers
AnsweredByPlatform(resp) ==
    /\ pc \in {"primary", "secondary"}
    /\ failsLeft = 0
    /\ receives(resp)
    /\ UNCHANGED <<upstreamCalls, proxyVars>>

\* the direct variant's request to the upstream service is answered
DirectAnswered(resp) ==
    /\ pc = "openai"
    /\ failsLeft = 0
    /\ upstreamCalls' = upstreamCalls + 1
    /\ receives(resp)
    /\ UNCHANGED proxyVars

\* the fetch in flight rejects: the 35 s / 5 min timer aborted it
\* (AbortError) or the transport failed (TypeError)
Fails(name, reached) ==
    /\ pc \in {"primary", "secondary", "openai"}
    /\ failsLeft > 0
    /\ name = "AbortError" => pc = "primary" /\ Len(attempts) \in timers
    /\ reached = 1 => name = "AbortError"
    /\ failsLeft' = failsLeft - 1
    /\ timers' = timers \ {Len(attempts)}
    /\ upstreamCalls' = upstreamCalls + reached
    /\ IF pc = "primary" /\ triesBackground(variant, name, retryCount) THEN
            /\ attempts' = Append(marked(name), [route |-> "secondary", outcome |-> "pending"])
            /\ pc' = "secondary"
            /\ UNCHANGED <<retryCount, result, waits>>
       ELSE IF ~hasLoop(variant) THEN
            /\ attempts' = marked(name)
            /\ result' = caught(fetchMessage(name))
            /\ pc' = "returned"
            /\ UNCHANGED <<retryCount, waits>>
       ELSE
            /\ attempts' = marked(name)
            /\ retryCount' = retryCount + 1
            /\ IF givesUp(retryCount + 1)
               THEN /\ result' = caught(fetchMessage(name))
                    /\ pc' = "returned"
                    /\ waits' = waits
               ELSE /\ result' = result
                    /\ pc' = "backoff"
                    /\ waits' = Append(waits, waitTime(retryCount + 1))
    /\ UNCHANGED <<appVars, variant, imageFile, base64Image, response,
                   processedFile, viteEnv, proxyVars>>

\* the server never answers a fetch that carries no abort signal
NeverAnswers ==
    /\ pc \in {"primary", "secondary", "openai"}
    /\ Len(attempts) \notin timers
    /\ failsLeft > 0
    /\ failsLeft' = failsLeft - 1
    /\ attempts' = marked("silent")
    /\ pc' = "stuck"
    /\ UNCHANGED <<appVars, variant, imageFile, base64Image, retryCount, response,
                   result, timers, waits, processedFile, viteEnv, upstreamCalls,
                   proxyVars>>

\* the backoff sleep ends: the loop condition is evaluated again
BackoffElapsed ==
    /\ pc = "backoff"
    /\ IF loopContinues(retryCount)
       THEN /\ sendsPrimary
            /\ result' = result
       ELSE /\ result' = fromResponse(response)
            /\ pc' = "returned"
            /\ UNCHANGED <<attempts, timers>>
    /\ UNCHANGED <<appVars, variant, imageFile, base64Image, retryCount, response,
                   waits, failsLeft, processedFile, viteEnv, upstreamCalls, proxyVars>>

\* the connectivity probe of the probing variant settles (answered by a
\* handler); its outcome is only logged, then the request proper is sent
ProbeAnswered(pv, env, up) ==
    /\ pc = "probing"
    /\ LET ev == [httpMethod |-> "POST", body |-> [json |-> [test |-> TRUE]]]
           r  == handler(pv, ev, env, up)
       IN  /\ Has(r, "response")
           /\ event' = ev
           /\ apiKey' = env
           /\ proxyVariant' = pv
           /\ upstream' = met(r, up)
           /\ reply' = r
           /\ upstreamCalls' = upstreamCalls + Len(r.fetched)
           /\ attempts' = Append(marked(IF ok(Response(r)) THEN "ok" ELSE "not ok"),
                                 [route |-> "primary", outcome |-> "pending"])
    /\ pc' = "primary"
    /\ UNCHANGED <<appVars, variant, imageFile, base64Image, retryCount, response,
                   result, timers, waits, failsLeft, processedFile, viteEnv>>

\* the connectivity probe rejects: the error is caught and logged
ProbeFails ==
    /\ pc = "probing"
    /\ attempts' = Append(marked("TypeError"), [route |-> "primary", outcome |-> "pending"])
    /\ pc' = "primary"
    /\ UNCHANGED <<appVars, variant, imageFile, base64Image, retryCount, response,
                   result, timers, waits, failsLeft, processedFile, viteEnv,
                   upstreamCalls, proxyVars>>

\* App.handleImageSelect after `await generateSouthParkImage(file)`
Settle ==
    /\ pc = "returned"
    /\ IF Has(result, "rejected")
       THEN \* the catch branch of handleImageSelect
            /\ error' = Str("An unexpected error occurred")
            /\ state' = "error"
            /\ generatedImageUrl' = generatedImageUrl
       ELSE IF IsTrue(result, "success") /\ Truthy(result, "imageUrl")
       THEN /\ generatedImageUrl' = result.imageUrl
            /\ state' = "result"
            /\ error' = error
       ELSE /\ error' = OrElse(result, "error", Str("Failed to generate image"))
            /\ state' = "error"
            /\ generatedImageUrl' = generatedImageUrl
    /\ pc' = "idle"
    /\ imageFile' = EmptyObject
    /\ processedFile' = EmptyObject
    /\ base64Image' = <<>>
    /\ response' = EmptyObject
    /\ UNCHANGED <<originalImageUrl, variant, retryCount, result, attempts, timers,
                   waits, failsLeft, viteEnv, upstreamCalls, proxyVars>>

\* variation: a reset control is offered while the submission is processed
HandleResetWhileProcessing ==
    /\ state \in {"processing", "result", "error"}
    /\ state' = "upload"
    /\ originalImageUrl' = <<>>
    /\ generatedImageUrl' = <<>>
    /\ error' = <<>>
    /\ retryCount' = 0
    /\ result' = EmptyObject
    /\ attempts' = <<>>
    /\ waits' = <<>>
    /\ failsLeft' = 0
    /\ upstreamCalls' = 0
    /\ event' = EmptyObject
    /\ apiKey' = EmptyObject
    /\ proxyVariant' = "cors"
    /\ upstream' = NoUpstream
    /\ reply' = NoInvocation
    /\ UNCHANGED <<variant, pc, imageFile, base64Image, response, timers,
                   processedFile, viteEnv>>

\* variation: handleReset leaves the generated image in place
HandleResetKeepingImage ==
    /\ state \in {"result", "error"}
    /\ state' = "upload"
    /\ originalImageUrl' = <<>>
    /\ generatedImageUrl' = generatedImageUrl
    /\ error' = <<>>
    /\ retryCount' = 0
    /\ result' = EmptyObject
    /\ attempts' = <<>>
    /\ waits' = <<>>
    /\ failsLeft' = 0
    /\ upstreamCalls' = 0
    /\ event' = EmptyObject
    /\ apiKey' = EmptyObject
    /\ proxyVariant' = "cors"
    /\ upstream' = NoUpstream
    /\ reply' = NoInvocation
    /\ UNCHANGED <<variant, pc, imageFile, base64Image, response, timers,
                   processedFile, viteEnv>>

\* variation: handleReset leaves the error message in place
HandleResetKeepingError ==
    /\ state \in {"result", "error"}
    /\ state' = "upload"
    /\ originalImageUrl' = <<>>
    /\ generatedImageUrl' = <<>>
    /\ error' = error
    /\ retryCount' = 0
    /\ result' = EmptyObject
    /\ attempts' = <<>>
    /\ waits' = <<>>
    /\ failsLeft' = 0
    /\ upstreamCalls' = 0
    /\ event' = EmptyObject
    /\ apiKey' = EmptyObject
    /\ proxyVariant' = "cors"
    /\ upstream' = NoUpstream
    /\ reply' = NoInvocation
    /\ UNCHANGED <<variant, pc, imageFile, base64Image, response, timers,
                   processedFile, viteEnv>>

\* App.handleReset
HandleReset ==
    /\ state \in {"result", "error"}
    /\ state' = "upload"
    /\ originalImageUrl' = <<>>
    /\ generatedImageUrl' = <<>>
    /\ error' = <<>>
    \* the records of the finished submission are dropped with it
    /\ retryCount' = 0
    /\ result' = EmptyObject
    /\ attempts' = <<>>
    /\ waits' = <<>>
    /\ failsLeft' = 0
    /\ upstreamCalls' = 0
    /\ event' = EmptyObject
    /\ apiKey' = EmptyObject
    /\ proxyVariant' = "cors"
    /\ upstream' = NoUpstream
    /\ reply' = NoInvocation
    /\ UNCHANGED <<variant, pc, imageFile, base64Image, response, timers,
                   processedFile, viteEnv>>

\* one invocation of a proxy handler, on any event
Invoke(pv, ev, env, up) ==
    /\ event = EmptyObject
    /\ event' = ev
    /\ apiKey' = env
    /\ proxyVariant' = pv
    /\ upstream' = met(handler(pv, ev, env, up), up)
    /\ reply' = handler(pv, ev, env, up)
    /\ UNCHANGED <<appVars, clientVars>>

Next ==
    \/ \E file \in Files : HandleImageSelect(file)
    \/ CompressImage
    \/ Encode
    \/ \E pv \in ProxyVariants, env \in LiveEnvs, up \in LiveUpstreams : Answered(pv, env, up)
    \/ \E resp \in OtherResponses : AnsweredByPlatform(resp)
    \/ \E resp \in DirectResponses : DirectAnswered(resp)
    \/ \E name \in {"AbortError", "TypeError"}, reached \in {0, 1} : Fails(name, reached)
    \/ NeverAnswers
    \/ BackoffElapsed
    \/ \E pv \in ProxyVariants, env \in LiveEnvs, up \in LiveUpstreams : ProbeAnswered(pv, env, up)
    \/ ProbeFails
    \/ Settle
    \/ HandleReset

Spec == Init /\ [][Next]_vars

\* the proxy on its own: every handler on every event
ProxyInit == Init /\ variant = "fallback"

\* the invocation is over: nothing of it is kept for the next one
Finish ==
    /\ event # EmptyObject
    /\ pc = "idle"
    /\ state = "upload"
    /\ event' = EmptyObject
    /\ apiKey' = EmptyObject
    /\ proxyVariant' = "cors"
    /\ upstream' = NoUpstream
    /\ reply' = NoInvocation
    /\ UNCHANGED <<appVars, clientVars>>

ProxyNext ==
    \/ \E pv \in ProxyVariants, ev \in Events, env \in Envs, up \in Upstreams :
            Invoke(pv, ev, env, up)
    \/ Finish

ProxySpec == ProxyInit /\ [][ProxyNext]_vars

\* compressImage on its own: files above the compression threshold whose
\* images have the pixel sizes of ResizeEdges in both directions
ResizeEdges == {1, 3, 600, 1024, 1025, 2048, 3000, 4000}

ResizeFiles ==
    {[type |-> "image/png", size |-> TenMiB + 1, bytes |-> encodeImage("png", w, h)] :
        w \in ResizeEdges, h \in ResizeEdges}

\* the state in which generateSouthParkImage awaits compressImage(file)
ResizeInit ==
    /\ state = "processing"
    /\ originalImageUrl = Str("blob:original")
    /\ generatedImageUrl = <<>>
    /\ error = <<>>
    /\ variant = "fallback"
    /\ viteEnv = EmptyObject
    /\ pc = "compress"
    /\ imageFile \in ResizeFiles
    /\ processedFile = imageFile
    /\ base64Image = <<>>
    /\ retryCount = 0
    /\ response = EmptyObject
    /\ result = EmptyObject
    /\ attempts = <<>>
    /\ timers = {}
    /\ waits = <<>>
    /\ failsLeft = 0
    /\ upstreamCalls = 0
    /\ event = EmptyObject
    /\ apiKey = EmptyObject
    /\ proxyVariant = "cors"
    /\ upstream = NoUpstream
    /\ reply = NoInvocation

ResizeNext == CompressImage

ResizeSpec == ResizeInit /\ [][ResizeNext]_vars

\* what the event loop guarantees: load events, settled promises and timers
\* are delivered, and the transport settles a request unless the server stays
\* silent (NeverAnswers is the environment's choice and is not forced)
Progress ==
    \/ CompressImage
    \/ Encode
    \/ \E pv \in ProxyVariants, env \in LiveEnvs, up \in LiveUpstreams : Answered(pv, env, up)
    \/ \E resp \in OtherResponses : AnsweredByPlatform(resp)
    \/ \E resp \in DirectResponses : DirectAnswered(resp)
    \/ \E name \in {"AbortError", "TypeError"}, reached \in {0, 1} : Fails(name, reached)
    \/ BackoffElapsed
    \/ \E pv \in ProxyVariants, env \in LiveEnvs, up \in LiveUpstreams : ProbeAnswered(pv, env, up)
    \/ ProbeFails
    \/ Settle

LiveSpec == Init /\ [][Next]_vars /\ WF_vars(Progress)

-----------------------------------------------------------------------------
(* Properties                                                              *)

\* the allow-list the specification names
AllowList == {"image/png", "image/jpeg", "image/jpg", "image/gif"}

\* the requests logged for a route
Requests(route) == {i \in 1..Len(attempts) : attempts[i].route = route}

\* the requests that ended without a response
Failed == {i \in 1..Len(attempts) : attempts[i].outcome \in {"AbortError", "TypeError", "silent"}}

\* k: how often the transport fails before it answers (spent and still to come)
TransportFailures == failsLeft + Cardinality(Failed)

\* the client build has a usable credential (direct variant only)
ClientConfigured ==
    Truthy(viteEnv, "VITE_OPENAI_API_KEY") /\ ~Placeholder(viteEnv.VITE_OPENAI_API_KEY)

\* a result that populates exactly one variant
ExactlyOneVariant(r) ==
    /\ Has(r, "success")
    /\ r.success => Truthy(r, "imageUrl") /\ ~Has(r, "error")
    /\ ~r.success => Truthy(r, "error") /\ ~Has(r, "imageUrl")

C2_RetryThenAnswer ==
    (hasLoop(variant) /\ pc = "primary" /\ Len(attempts) = 1 /\ failsLeft < maxRetries)
        ~> (/\ pc = "returned"
            /\ response # EmptyObject
            /\ (ok(response) /\ Has(response.body, "json")
                    /\ IsTrue(response.body.json, "success")
                    /\ Truthy(response.body.json, "imageUrl"))
                => IsTrue(result, "success"))

C2_Witness ==
    /\ hasLoop(variant)
    /\ pc = "returned"
    /\ Len(attempts) = 2
    /\ attempts[1].outcome = "TypeError"
    /\ attempts[2].outcome = "response"
    /\ IsTrue(result, "success")

\* C3 (as stated): with k >= maxRetries transport failures the submission
\* ends in the connection failure after maxRetries + 1 attempts.
C3_Original ==
    (hasLoop(variant) /\ pc = "returned" /\ attempts # <<>>
        /\ TransportFailures >= maxRetries) =>
        /\ ~result.success
        /\ response = EmptyObject
        /\ Len(attempts) = maxRetries + 1

\* C3 (amended): when the transport fails every request that is sent (k at
\* least maxRetries + 1, plus one for the fallback request when it was
\* made), the submission ends in a failure without a response and exactly
\* maxRetries + 1 requests went to the primary endpoint.
C3_RetriesExhausted ==
    (hasLoop(variant) /\ pc = "returned" /\ attempts # <<>>
        /\ TransportFailures >= maxRetries + 1 + Cardinality(Requests("secondary"))) =>
        /\ ~result.success
        /\ response = EmptyObject
        /\ Cardinality(Requests("primary")) = maxRetries + 1
        /\ Failed = 1..Len(attempts)

C3_Witness ==
    /\ variant = "retry"
    /\ pc = "returned"
    /\ Len(attempts) = 3
    /\ Failed = {1, 2, 3}
    /\ ~result.success

\* the first request to the primary endpoint was aborted by its timeout
FirstAttemptTimedOut ==
    variant = "fallback" /\ attempts # <<>> /\ attempts[1].outcome = "AbortError"

\* C4 (as stated): after a timed-out first attempt exactly one request
\* goes to the secondary endpoint and none goes to the primary any more.
C4_Original ==
    FirstAttemptTimedOut =>
        /\ Cardinality(Requests("secondary")) = 1
        /\ Cardinality(Requests("primary")) = 1

\* C4 (amended): after a timed-out first attempt exactly one request goes
\* to the secondary endpoint, at once; the primary is requested again only
\* when that request failed at transport level, and then at most
\* maxRetries more times.
C4_FallbackOnce ==
    FirstAttemptTimedOut =>
        /\ Cardinality(Requests("secondary")) = 1
        /\ attempts[2].route = "secondary"
        /\ Cardinality(Requests("primary")) > 1 => attempts[2].outcome = "TypeError"
        /\ Cardinality(Requests("primary")) <= 1 + maxRetries

C4_Witness ==
    /\ FirstAttemptTimedOut
    /\ pc = "returned"
    /\ Len(attempts) = 2
    /\ attempts[2] = [route |-> "secondary", outcome |-> "response"]

\* C5: in the retrying variants a response, whatever its status, ends the
\* dispatch (it is the last request logged and the call has returned), and
\* every request after the first follows one whose fetch rejected.
C5_ResponseEndsDispatch ==
    hasLoop(variant) =>
        \A i \in 1..Len(attempts) :
            /\ attempts[i].outcome = "response" => i = Len(attempts) /\ pc \in {"returned", "idle"}
            /\ i > 1 => attempts[i - 1].outcome \in {"AbortError", "TypeError"}

C5_Witness ==
    /\ hasLoop(variant)
    /\ pc = "returned"
    /\ Len(attempts) = 2
    /\ attempts[1].outcome = "TypeError"
    /\ response # EmptyObject
    /\ response.status = 500
    /\ retryCount = 1

\* the proxy has answered a POST
PostAnswered == Has(event, "httpMethod") /\ event.httpMethod = "POST" /\ Has(reply, "response")

\* the credential is absent, empty or carries one of the placeholder markers
Unconfigured ==
    \/ ~Has(apiKey, "OPENAI_API_KEY")
    \/ apiKey.OPENAI_API_KEY = <<>>
    \/ \E i \in 1..Len(apiKey.OPENAI_API_KEY) :
          apiKey.OPENAI_API_KEY[i] \in {"your_ope", "************"}

\* the request is a connectivity probe: { test: true } and no image
IsProbe ==
    /\ Has(event, "body")
    /\ Has(event.body, "json")
    /\ IsTrue(event.body.json, "test")
    /\ ~Has(event.body.json, "image")

\* C6: a POST handled without a usable credential is answered 500 with
\* { success: false, error } and nothing is sent upstream, whatever the body.
C6_MisconfiguredProxy ==
    (PostAnswered /\ Unconfigured) =>
        /\ reply.response.statusCode = 500
        /\ Has(reply.response.body, "json")
        /\ Has(reply.response.body.json, "success")
        /\ ~reply.response.body.json.success
        /\ Truthy(reply.response.body.json, "error")
        /\ reply.fetched = <<>>

C6_Witness ==
    /\ PostAnswered
    /\ ~Has(event, "body")
    /\ apiKey = [OPENAI_API_KEY |-> <<"sk-", "************">>]
    /\ proxyVariant = "timed"
    /\ reply.response.statusCode = 500
    /\ reply.fetched = <<>>

\* C7: a result of generateSouthParkImage populates exactly one variant,
\* whatever the response was, a 200 with success: true and no imageUrl
\* included.
C7_ExactlyOneVariant == result # EmptyObject => ExactlyOneVariant(result)

C7_Witness ==
    /\ pc = "returned"
    /\ response # EmptyObject
    /\ response.status = 200
    /\ Has(response.body, "json")
    /\ IsTrue(response.body.json, "success")
    /\ ~Has(response.body.json, "imageUrl")
    /\ ~result.success
    /\ Truthy(result, "error")

\* C8 (as stated): after handleImageSelect the state always eventually
\* leaves 'processing' for 'result' or 'error', whatever the decoder and
\* the network do (stated for the service with the fallback route).
C8_Original ==
    (variant = "fallback" /\ state = "processing") ~> (state \in {"result", "error"})

\* C9: a POST whose body is the connectivity probe { test: true } sends
\* nothing upstream.
C9_ProbeNoUpstream == (PostAnswered /\ IsProbe) => reply.fetched = <<>>

C9_Witness ==
    /\ PostAnswered
    /\ IsProbe
    /\ proxyVariant = "cors"
    /\ apiKey = [OPENAI_API_KEY |-> Str("sk-proj-A")]
    /\ reply.fetched = <<>>
    /\ upstream = NoUpstream

\* C10 (as stated): with a valid credential, the connectivity probe is
\* answered 200 with a success acknowledgment.
C10_Original ==
    (PostAnswered /\ IsProbe /\ ~Unconfigured) =>
        /\ reply.response.statusCode = 200
        /\ Has(reply.response.body, "json")
        /\ IsTrue(reply.response.body.json, "success")

\* the body of the request is missing or invalid: absent or empty, not
\* JSON, JSON without image, or an image text without a comma
InvalidBody ==
    \/ ~Has(event, "body")
    \/ Has(event.body, "text")
    \/ /\ Has(event.body, "json")
       /\ \/ ~Has(event.body.json, "image")
          \/ \A i \in 1..Len(event.body.json.image) : event.body.json.image[i] # ","

\* C11 (as stated): with a valid credential, a POST whose body is missing
\* or invalid is answered 400 and nothing is sent upstream.
C11_Original ==
    (PostAnswered /\ ~Unconfigured /\ InvalidBody) =>
        /\ reply.response.statusCode = 400
        /\ reply.fetched = <<>>

\* the request has been answered (any method)
Replied == Has(event, "httpMethod") /\ Has(reply, "response")

\* C12: a request whose method is neither POST nor OPTIONS is answered 405
\* and nothing is sent upstream, whatever the credential and the body.
C12_MethodNotAllowed ==
    (Replied /\ event.httpMethod \notin {"POST", "OPTIONS"}) =>
        /\ reply.response.statusCode = 405
        /\ reply.fetched = <<>>

C12_Witness ==
    /\ Replied
    /\ event.httpMethod = "GET"
    /\ Has(event, "body")
    /\ Has(event.body, "json")
    /\ Has(event.body.json, "image")
    /\ apiKey = [OPENAI_API_KEY |-> Str("sk-proj-A")]
    /\ reply.response.statusCode = 405
    /\ reply.fetched = <<>>

\* C13 (as stated): an OPTIONS request is always answered 200 with
\* Access-Control-Allow-Origin: *, and nothing is sent upstream.
C13_Original ==
    (Replied /\ event.httpMethod = "OPTIONS") =>
        /\ reply.response.statusCode = 200
        /\ Has(reply.response, "headers")
        /\ reply.response.headers.AccessControlAllowOrigin = Str("*")
        /\ reply.fetched = <<>>

\* text `m` occurs in text `s`
Contains(s, m) == \E i \in 1..Len(s) : i + Len(m) - 1 <= Len(s) /\ SubSeq(s, i, i + Len(m) - 1) = m

\* the upstream service answered the request with a non-2xx status and a
\* JSON body that carries error.message
UpstreamRejected ==
    /\ upstream.kind = "http"
    /\ ~ok(upstream)
    /\ Has(upstream.body, "json")
    /\ Has(upstream.body.json, "error")
    /\ Truthy(upstream.body.json.error, "message")

\* C14: a non-2xx upstream answer with status s and error message m is
\* passed on with the same status s and a body { success: false, error }
\* whose error contains m.
C14_UpstreamErrorForwarded ==
    (PostAnswered /\ UpstreamRejected) =>
        /\ reply.response.statusCode = upstream.status
        /\ Has(reply.response.body, "json")
        /\ Has(reply.response.body.json, "success")
        /\ ~reply.response.body.json.success
        /\ Truthy(reply.response.body.json, "error")
        /\ Contains(reply.response.body.json.error, upstream.body.json.error.message)

C14_Witness ==
    /\ PostAnswered
    /\ UpstreamRejected
    /\ proxyVariant = "plain"
    /\ upstream.status = 429
    /\ reply.response.statusCode = 429
    /\ reply.response.body.json.error = <<"OpenAI Error: ", "Rate limit reached">>

\* the messages that tell of a timeout, of a too large payload, of rate
\* limiting and of a server error
TimedOutMessages ==
    {Str("Request timed out. The image may be too large or complex. Please try with a smaller or simpler image."),
     Str("Request timed out. Please try again with a smaller image."),
     Str("Request timed out. Please try again.")}

TooLargeMessage == Str("Image file is too large. Please use a smaller image.")

TooManyMessage == Str("Too many requests. Please wait a moment and try again.")

ServerErrorMessage == Str("Server error. Please try again in a few moments.")

RateLimited(message) ==
    message = TooManyMessage \/ Contains(message, Str("Rate limit reached"))

\* a retrying variant has returned on a non-2xx response
RejectedByStatus ==
    hasLoop(variant) /\ pc = "returned" /\ response # EmptyObject /\ ~ok(response)

\* C15 (as stated): 408 and 504 give a timed-out message, 413 a
\* payload-too-large message, 429 a rate-limited message, every other
\* status the server's message when the body parses, else a generic
\* message that contains the status code.
C15_Original ==
    RejectedByStatus =>
        /\ ~result.success
        /\ response.status \in {408, 504} => result.error \in TimedOutMessages
        /\ response.status = 413 => result.error = TooLargeMessage
        /\ response.status = 429 => RateLimited(result.error)
        /\ response.status \notin {408, 504, 413, 429} =>
              IF Has(response.body, "json")
              THEN Truthy(response.body.json, "error") => result.error = response.body.json.error
              ELSE Includes(result.error, ToString(response.status))

\* C15 (amended): the message is a function of the parsed body first and
\* of the status second: a body that parses gives its error property, or
\* 'Failed to generate image' without one, whatever the status; a body
\* that does not parse gives the message of the status (408, 504, 413,
\* 429, 500), else a generic message that contains the status code.
C15_BodyThenStatus ==
    RejectedByStatus =>
        /\ ~result.success
        /\ IF Has(response.body, "json")
           THEN result.error = IF Truthy(response.body.json, "error")
                               THEN response.body.json.error
                               ELSE Str("Failed to generate image")
           ELSE /\ response.status \in {408, 504} => result.error \in TimedOutMessages
                /\ response.status = 413 => result.error = TooLargeMessage
                /\ response.status = 429 => result.error = TooManyMessage
                /\ response.status = 500 => result.error = ServerErrorMessage
                /\ response.status \notin {408, 504, 413, 429, 500} =>
                        Includes(result.error, ToString(response.status))

C15_Witness ==
    /\ RejectedByStatus
    /\ response.status = 413
    /\ Has(response.body, "text")
    /\ result = [success |-> FALSE, error |-> TooLargeMessage]

\* a retrying variant has returned on the proxy's answer to an upstream 429
UpstreamSaid429 ==
    /\ hasLoop(variant)
    /\ pc = "returned"
    /\ upstream.kind = "http"
    /\ upstream.status = 429

\* C16 (as stated): an upstream 429 ends in a failure with a message about
\* rate limiting, after one request of the client to the proxy and one of
\* the proxy to the upstream service (counted from the request that was
\* answered: earlier requests can only have failed at transport level).
C16_Original ==
    UpstreamSaid429 =>
        /\ ~result.success
        /\ RateLimited(result.error)
        /\ Len(reply.fetched) = 1
        /\ attempts[Len(attempts)].outcome = "response"
        /\ Failed = {} => Len(attempts) = 1 /\ upstreamCalls = 1

\* the texts of a proxy response: header values and body
TextsOf(resp) ==
    (IF Has(resp, "headers") THEN {resp.headers[h] : h \in DOMAIN resp.headers} ELSE {})
    \cup (IF Has(resp.body, "text") THEN {resp.body.text} ELSE {})
    \cup (IF Has(resp.body, "json")
          THEN {resp.body.json[f] : f \in DOMAIN resp.body.json \ {"success"}}
          ELSE {})

\* text `t` carries a piece of the key
Carries(t, key) == \E i \in 1..Len(t), j \in 1..Len(key) : t[i] = key[j]

\* no response of the proxy carries the credential, and the response is
\* the same under any other valid credential
ProxyKeepsCredential ==
    (Has(reply, "response") /\ Truthy(apiKey, "OPENAI_API_KEY")) =>
        /\ \A t \in TextsOf(reply.response) : ~Carries(t, apiKey.OPENAI_API_KEY)
        /\ Configured(apiKey) =>
              \A k \in ValidKeys :
                  handler(proxyVariant, event, [OPENAI_API_KEY |-> k], upstream).response
                      = reply.response

\* no request in flight from the browser carries a credential
ClientHoldsNoCredential ==
    pc = "openai" => ~Carries(clientAuthorization(viteEnv), viteEnv.VITE_OPENAI_API_KEY)

\* C17 (as stated): the credential never reaches the client: no proxy
\* response carries it, the response is the same for any two valid
\* credentials, and the client side holds no part of it.
C17_Original == ProxyKeepsCredential /\ ClientHoldsNoCredential

Max(a, b) == IF a > b THEN a ELSE b

\* b is a * num / den within rounding (less than one pixel off)
Scaled(b, a, num, den) == b * den - a * num < den /\ a * num - b * den < den

\* C18 (as stated): when the larger edge exceeds 1024, compressImage
\* yields a larger edge of exactly 1024 and the other edge scaled by the
\* same factor within rounding, width = height included; otherwise the
\* dimensions are unchanged.
C18_Original ==
    (pc = "encode" /\ imageFile \in ResizeFiles) =>
        LET w  == imgWidth(imageFile.bytes)
            h  == imgHeight(imageFile.bytes)
            w2 == imgWidth(processedFile.bytes)
            h2 == imgHeight(processedFile.bytes)
        IN  IF Max(w, h) > 1024
            THEN /\ Max(w2, h2) = 1024
                 /\ IF w > h THEN Scaled(h2, h, 1024, w) ELSE Scaled(w2, w, 1024, h)
            ELSE w2 = w /\ h2 = h

\* the proxy handles a POST whose body is { image: data:<mime>;base64,<b64> }
\* for the image data `bytes`, with a usable credential
Carrying(mime, bytes) ==
    /\ Has(event, "httpMethod")
    /\ event.httpMethod = "POST"
    /\ Has(event, "body")
    /\ event.body = [json |-> [image |-> DataURL(mime, bytes)]]
    /\ Configured(apiKey)

\* C19 (as stated): the proxy recovers the image data byte for byte and
\* the media type tag of the payload, and forwards the data to the
\* upstream service labelled with that media type.
C19_Original ==
    \A mime \in {"image/png", "image/jpeg"} :
        \A bytes \in {encodeImage("png", 800, 600), encodeImage("jpeg", 1024, 512)} :
            Carrying(mime, bytes) =>
                /\ Len(reply.fetched) = 1
                /\ reply.fetched[1].image.buffer = bytes
                /\ reply.fetched[1].image.contentType = mime

\* the bytes are recovered by every handler
RoundTrip ==
    \A mime \in {"image/png", "image/jpeg"} :
        \A bytes \in {encodeImage("png", 800, 600), encodeImage("jpeg", 1024, 512)} :
            Carrying(mime, bytes) =>
                /\ Len(reply.fetched) = 1
                /\ reply.fetched[1].image.buffer = bytes
                /\ proxyVariant = "cors" => reply.fetched[1].image.contentType = mime

\* what a service variant makes of a response
ResultOf(v, resp) ==
    CASE v = "probe"  -> fromResponseProbe(resp)
      [] v = "direct" -> fromResponseDirect(resp)
      [] OTHER        -> fromResponse(resp)

C21_SecondaryOnlyAfterFirstTimeout ==
    /\ Cardinality(Requests("secondary")) <= 1
    /\ \A i \in Requests("secondary") :
          /\ i = 2
          /\ attempts[1] = [route |-> "primary", outcome |-> "AbortError"]
          /\ variant = "fallback"
    /\ \A i \in 1..Len(attempts) - 1 :
          (attempts[i].outcome = "TypeError" \/ (i > 1 /\ attempts[i].outcome = "AbortError"))
              => attempts[i + 1].route # "secondary"

C21_Witness ==
    /\ variant = "fallback"
    /\ Len(attempts) = 3
    /\ attempts[1].outcome = "TypeError"
    /\ attempts[2].outcome = "AbortError"
    /\ attempts[3].route = "primary"
    /\ Requests("secondary") = {}

\* a request of a retrying variant is in flight
Dispatching == hasLoop(variant) /\ pc \in {"primary", "secondary"}

\* C22 (as stated): every request of the orchestrator, the one to the
\* secondary endpoint included, is in flight under a timeout timer, and a
\* dispatch always comes to an end even when the server never answers.
C22_Original ==
    /\ [](Dispatching => Len(attempts) \in timers)
    /\ (Dispatching ~> pc = "returned")

\* C23: an armed timeout timer always belongs to the one request that is in
\* flight (so it can abort no later attempt), only a request that armed a
\* timer is ever aborted, and no timer is armed between attempts or once
\* the submission has its result.
C23_TimersOwnedAndCleared ==
    /\ \A i \in timers : i = Len(attempts) /\ attempts[i].outcome = "pending"
    /\ \A i \in 1..Len(attempts) :
          attempts[i].outcome = "AbortError" =>
              hasTimer(variant) /\ attempts[i].route = "primary"
    /\ pc \in {"backoff", "returned", "idle"} => timers = {}

C23_Witness ==
    /\ variant = "fallback"
    /\ pc = "returned"
    /\ Len(attempts) = 3
    /\ attempts[1].outcome = "TypeError"
    /\ attempts[2].outcome = "AbortError"
    /\ attempts[3].outcome = "response"
    /\ timers = {}

\* retry numbers for which the backoff formula is evaluated on its own
MaxRetryNumber == 5

\* C24: the n-th wait of a dispatch is min(1000 * 2^n, 5000) ms; the waits
\* never decrease, lie between 1000 and 5000, there is one per failed
\* attempt that is followed by another attempt and none after the last
\* failed attempt; the formula keeps these bounds for larger n as well.
C24_Backoff ==
    /\ \A n \in 1..Len(waits) :
          /\ waits[n] = IF n = 1 THEN 2000 ELSE IF n = 2 THEN 4000 ELSE 5000
          /\ waits[n] >= 1000 /\ waits[n] <= 5000
          /\ n > 1 => waits[n - 1] <= waits[n]
    /\ Len(waits) = Min(retryCount, maxRetries)
    /\ pc = "backoff" => Len(waits) = retryCount
    /\ \A n \in 1..MaxRetryNumber :
          /\ waitTime(n) = IF n = 1 THEN 2000 ELSE IF n = 2 THEN 4000 ELSE 5000
          /\ waitTime(n) <= waitTime(n + 1)

C24_Witness ==
    /\ pc = "returned"
    /\ retryCount = maxRetries + 1
    /\ waits = <<2000, 4000>>
    /\ Len(attempts) \in Failed

\* the variant of the cited preprocessing holds a file the browser cannot decode
HoldsCorruptFile ==
    /\ variant = "fallback"
    /\ pc \in {"compress", "encode"}
    /\ Has(processedFile, "bytes")
    /\ ~Decodable(processedFile.bytes)

\* C25 (as stated): a submitted file that cannot be decoded leads, whatever
\* its size, to a failure result without any request having been sent.
C25_Original ==
    HoldsCorruptFile ~> (pc = "returned" /\ ~IsTrue(result, "success") /\ attempts = <<>>)

\* the part of C25 that holds: below the compression threshold the failed
\* decode is reported and nothing is sent
C25_SmallCorruptFileFails ==
    (HoldsCorruptFile /\ pc = "encode")
        ~> (pc = "returned" /\ ~IsTrue(result, "success") /\ attempts = <<>>)

\* a payload has been built and a request carrying it has been sent
Transmitted == attempts # <<>> /\ base64Image # <<>>

\* the image data the transmitted payload holds
PayloadBytes ==
    base64Decode(IF HasSplit1(base64Image) THEN Split1(base64Image) ELSE base64Image)

\* the media type the transmitted payload is tagged with ("" for untagged
\* base64 text)
PayloadType == IF mimeMatch(base64Image) THEN base64Image[2] ELSE ""

\* C26 (as stated): the image of every payload transmitted to the backend
\* has its larger edge at most maxDimension.
C26_Original ==
    (variant = "fallback" /\ Transmitted /\ Decodable(PayloadBytes)) =>
        Max(imgWidth(PayloadBytes), imgHeight(PayloadBytes)) <= maxDimension

\* every payload sent to the backend is tagged with the media type t
AlwaysTagged(t) ==
    (variant \in {"fallback", "retry"} /\ Transmitted) => PayloadType = t

\* C27 (as stated): there is one media type that every payload sent to the
\* backend is tagged with, whatever the type and size of the submitted
\* files.
C27_Original ==
    \/ []AlwaysTagged("image/png")
    \/ []AlwaysTagged("image/jpeg")
    \/ []AlwaysTagged("image/jpg")
    \/ []AlwaysTagged("image/gif")

\* the variant that converts every file to PNG keeps the claim
FallbackAlwaysPNG ==
    (variant = "fallback" /\ Transmitted) => PayloadType = "image/png"

\* the upstream service answered the request 2xx with a JSON body
UpstreamAccepted ==
    /\ upstream.kind = "http"
    /\ ok(upstream)
    /\ Has(upstream.body, "json")

\* the answer of the proxy is Success with the image reference ref
Succeeds(ref) ==
    /\ reply.response.statusCode = 200
    /\ IsTrue(reply.response.body.json, "success")
    /\ reply.response.body.json.imageUrl = ref

\* the answer of the proxy is a failure
FailsToNormalize ==
    /\ reply.response.statusCode = 500
    /\ Has(reply.response.body.json, "success")
    /\ ~reply.response.body.json.success
    /\ ~Has(reply.response.body.json, "imageUrl")

\* C28: of a 2xx upstream answer the proxy looks at the first element of
\* data only: a (non-empty) url gives Success with that url, also when
\* b64_json is present; otherwise a b64_json gives Success with
\* data:image/png;base64,<b64_json>; otherwise the answer is a failure; a
\* missing or empty data list gives a failure.
C28_NormalizerPriority ==
    (PostAnswered /\ UpstreamAccepted) =>
        LET data == upstream.body.json IN
        IF ~Has(data, "data") \/ Len(data.data) = 0 THEN FailsToNormalize
        ELSE LET first == data.data[1] IN
             IF Has(first, "url") /\ first.url # <<>> THEN Succeeds(first.url)
             ELSE IF Has(first, "b64_json")
                  THEN Succeeds(<<"data:image/png;base64,">> \o first.b64_json)
                  ELSE FailsToNormalize

C28_Witness ==
    /\ PostAnswered
    /\ UpstreamAccepted
    /\ proxyVariant = "cors"
    /\ Len(upstream.body.json.data) = 1
    /\ Has(upstream.body.json.data[1], "b64_json")
    /\ Succeeds(Str("https://cdn.openai.example/img-1.png"))

\* the direct variant has returned on a 2xx answer with a JSON body
OutputItemMode ==
    /\ variant = "direct"
    /\ pc = "returned"
    /\ attempts # <<>>
    /\ attempts[Len(attempts)].outcome = "response"
    /\ ok(response)
    /\ Has(response.body, "json")

\* the output list of the answer (empty when the answer has none)
OutputItems == IF Has(response.body.json, "output") THEN response.body.json.output ELSE <<>>

\* positions of the image_generation_call items
CallItems == {i \in 1..Len(OutputItems) : OutputItems[i].type = "image_generation_call"}

\* C29: in the output-item mode, an answer without image_generation_call
\* item gives a failure whose message names the type of every output item,
\* or 'none' when there is no item; otherwise the first such item decides:
\* an empty result gives a failure, and a success shows that item's result.
C29_OutputItems ==
    OutputItemMode =>
        IF CallItems = {} THEN
            /\ ~IsTrue(result, "success")
            /\ result.error[1] = "No image generation call found in response. Available output types: "
            /\ \A i \in 1..Len(OutputItems) : Includes(result.error, OutputItems[i].type)
            /\ OutputItems = <<>> => result.error[Len(result.error)] = "none"
            /\ OutputItems # <<>> => ~Includes(result.error, "none")
        ELSE
            LET first == OutputItems[CHOOSE i \in CallItems : \A j \in CallItems : i <= j]
            IN  IF ~Has(first, "result") \/ first.result = <<>>
                THEN /\ ~IsTrue(result, "success")
                     /\ result.error = Str("No image data returned from GPT Image")
                ELSE /\ IsTrue(result, "success") => result.imageUrl = Str("blob:") \o first.result
                     /\ atobOk(first.result) => IsTrue(result, "success")

C29_Witness ==
    /\ OutputItemMode
    /\ CallItems = {}
    /\ Len(OutputItems) = 2
    /\ result.error =
          <<"No image generation call found in response. Available output types: ",
            "message", ", ", "reasoning">>

\* a first call item without result fails although a later one has one
FirstCallDecides ==
    /\ OutputItemMode
    /\ CallItems = {1, 2}
    /\ OutputItems[2].result # <<>>
    /\ ~IsTrue(result, "success")

\* a call of generateSouthParkImage has started and has not been settled
InFlight == pc # "idle"

\* C30: a call of generateSouthParkImage is in flight only while the App
\* is 'processing', and never while it offers the dropzone ('upload'); a
\* call starts only from 'upload' with no call in flight; 'upload' is
\* entered only from 'result' or 'error'; 'processing' is left only when
\* the call has returned.
C30_SingleFlight ==
    /\ [](InFlight => state = "processing")
    /\ [](state = "upload" => ~InFlight)
    /\ [][/\ (~InFlight /\ InFlight') => (state = "upload" /\ state' = "processing")
          /\ (state # "upload" /\ state' = "upload") => state \in {"result", "error"}
          /\ (state # "processing" /\ state' = "processing") => (state = "upload" /\ ~InFlight)
          /\ (state = "processing" /\ state' # "processing") =>
                (pc = "returned" /\ state' \in {"result", "error"})]_vars

C30_Witness ==
    /\ state = "processing"
    /\ pc = "backoff"
    /\ retryCount = 2
    /\ ~ENABLED HandleReset
    /\ \A file \in Files : ~ENABLED HandleImageSelect(file)

\* a handler has been invoked on an event
Invoked == Has(event, "httpMethod")

\* the body is JSON of the shape { success: false, error: <string> }
FailureShape(body) ==
    /\ Has(body, "json")
    /\ DOMAIN body.json = {"success", "error"}
    /\ body.json.success = FALSE
    /\ body.json.error \in Seq(STRING)

\* the body is JSON of the shape { success: true, imageUrl: <string> }
SuccessShape(body) ==
    /\ Has(body, "json")
    /\ DOMAIN body.json = {"success", "imageUrl"}
    /\ body.json.success = TRUE
    /\ body.json.imageUrl \in Seq(STRING)

\* C31 (as stated): whatever the event, the credential and the upstream
\* outcome, the handler returns a response with a status code, and for a
\* POST the body of that response is { success: false, error } or
\* { success: true, imageUrl }.
C31_Original ==
    Invoked =>
        /\ Has(reply, "response")
        /\ Has(reply.response, "statusCode")
        /\ event.httpMethod = "POST" =>
              FailureShape(reply.response.body) \/ SuccessShape(reply.response.body)

\* what holds of C31: a handler run that returns, returns a status code
\* and, for a POST, one of the two shapes; the only run that does not
\* return is the one whose upstream request is never answered, in the
\* handler without upstream timeout
ReturnsShapedAnswer ==
    Invoked =>
        /\ ~Has(reply, "response") => (upstream.kind = "silent" /\ proxyVariant = "cors")
        /\ Has(reply, "response") =>
              /\ Has(reply.response, "statusCode")
              /\ event.httpMethod = "POST" =>
                    FailureShape(reply.response.body) \/ SuccessShape(reply.response.body)

\* C32: generateSouthParkImage settles with a result object only: what it
\* returns is { success: true, imageUrl } or { success: false, error },
\* never a rejection, also after exhausted retries, a failed fallback
\* request, an unparseable response body or a failed conversion; the App
\* never shows the message of its own catch branch.
C32_NeverRejects ==
    /\ pc = "returned" =>
          /\ ~Has(result, "rejected")
          /\ Has(result, "success")
          /\ IF result.success THEN Has(result, "imageUrl")
             ELSE Has(result, "error") /\ result.error # <<>>
    /\ error # Str("An unexpected error occurred")
    /\ (state = "error" /\ attempts # <<>> /\ attempts[Len(attempts)].outcome \in {"AbortError", "TypeError"})
          => error[1] = "Failed to generate image: "

C32_Witness ==
    /\ variant = "fallback"
    /\ state = "error"
    /\ Len(attempts) = 4
    /\ attempts[2] = [route |-> "secondary", outcome |-> "TypeError"]
    /\ attempts[4].outcome = "TypeError"
    /\ error = <<"Failed to generate image: ", "Failed to fetch">>

\* the message of the branch taken when response is unset after the loop
ConnectFailedMessage == Str("Failed to connect to server after multiple attempts")

\* every request of the dispatch failed at transport level
AllAttemptsFailed ==
    /\ attempts # <<>>
    /\ \A i \in 1..Len(attempts) : attempts[i].outcome \in {"AbortError", "TypeError"}

\* C33: a retrying dispatch whose requests all failed at transport level
\* returns 'Failed to generate image: ' followed by the message of the
\* last transport error; the loop condition is never found false, so the
\* result 'Failed to connect to server after multiple attempts' is never
\* produced nor shown.
C33_ConnectBranchUnreachable ==
    /\ Has(result, "error") => result.error # ConnectFailedMessage
    /\ error # ConnectFailedMessage
    /\ pc = "backoff" => retryCount <= maxRetries
    /\ (hasLoop(variant) /\ pc = "returned" /\ AllAttemptsFailed) =>
          /\ retryCount = maxRetries + 1
          /\ result = [success |-> FALSE,
                       error |-> <<"Failed to generate image: ",
                                   IF attempts[Len(attempts)].outcome = "AbortError"
                                   THEN "The user aborted a request."
                                   ELSE "Failed to fetch">>]

C33_Witness ==
    /\ variant = "retry"
    /\ pc = "returned"
    /\ AllAttemptsFailed
    /\ Len(attempts) = 3
    /\ attempts[3].outcome = "AbortError"
    /\ result.error = <<"Failed to generate image: ", "The user aborted a request.">>

\* C34: one submission sends at most 3 requests to the primary endpoint,
\* at most 1 to the secondary endpoint and at most 4 in all, a failed
\* fallback request followed by retries of the primary included; once
\* the result is returned the list of requests grows no more.
C34_RequestBudget ==
    /\ [](/\ Cardinality(Requests("primary")) <= 3
          /\ Cardinality(Requests("secondary")) <= 1
          /\ Len(attempts) <= 4)
    /\ [][/\ pc = "returned" => attempts' = attempts
          /\ Len(attempts') > Len(attempts) =>
                (pc \in {"encode", "probing", "primary", "backoff"}
                    /\ Len(attempts') = Len(attempts) + 1)]_vars

C34_Witness ==
    /\ variant = "fallback"
    /\ pc = "returned"
    /\ Requests("primary") = {1, 3, 4}
    /\ Requests("secondary") = {2}
    /\ attempts[2].outcome = "TypeError"
    /\ attempts[4].outcome = "response"

\* C35: for a POST the status code and the body of the proxy's answer
\* agree: the status is 200 exactly when the body has success = true and
\* a non-empty imageUrl, and every other answer has success = false and an
\* error text.
C35_StatusAgreesWithBody ==
    PostAnswered =>
        LET r == reply.response IN
        /\ Has(r.body, "json")
        /\ r.statusCode = 200 <=> (IsTrue(r.body.json, "success") /\ Truthy(r.body.json, "imageUrl"))
        /\ r.statusCode # 200 =>
              /\ Has(r.body.json, "success")
              /\ r.body.json.success = FALSE
              /\ Truthy(r.body.json, "error")

C35_Witness ==
    /\ PostAnswered
    /\ proxyVariant = "timed"
    /\ upstream.kind = "http"
    /\ upstream.status = 401
    /\ reply.response.statusCode = 401
    /\ reply.response.body.json.success = FALSE
    /\ reply.response.body.json.error = <<"OpenAI Error: ", "Unknown error">>

\* C36 (as stated): every response of a CORS-enabled handler carries the
\* permissive CORS headers.
C36_Original ==
    (Replied /\ proxyVariant \in {"cors", "timed"}) =>
        /\ Has(reply.response, "headers")
        /\ reply.response.headers = headers

\* C37: in 'result' the App holds a generated image and no error text, in
\* 'error' an error text and no generated image, in 'upload' neither of
\* them nor an original image; handleReset is available in 'result' and
\* 'error' and every step into 'upload' leaves all three cleared.
C37_AppStateInvariant ==
    /\ [](/\ state = "result" => (generatedImageUrl # <<>> /\ error = <<>>)
          /\ state = "error" => (error # <<>> /\ generatedImageUrl = <<>>)
          /\ state = "upload" =>
                (originalImageUrl = <<>> /\ generatedImageUrl = <<>> /\ error = <<>>)
          /\ state \in {"result", "error"} => ENABLED HandleReset)
    /\ [][(state \in {"result", "error"} /\ state' # state) =>
              /\ state' = "upload"
              /\ originalImageUrl' = <<>>
              /\ generatedImageUrl' = <<>>
              /\ error' = <<>>]_vars

C37_Witness ==
    /\ state = "result"
    /\ variant = "retry"
    /\ originalImageUrl = Str("blob:original")
    /\ generatedImageUrl = <<"data:image/png;base64,", "Q", "U", "I", "=">>
    /\ error = <<>>

====
